---- MODULE Spec2Model ----
(***************************************************************************)
(* Model of the QRCode component of src/lib/index.tsx: the render pass     *)
(* update() (background, module painting in nine styles, the three eyes),  *)
(* the path primitive drawRoundedSquare, and the asynchronous logo         *)
(* overlay (image.onload).                                                 *)
(*                                                                         *)
(* Numbers are exact rationals <<n, d>> (d > 0, lowest terms).  The canvas *)
(* is the 2D context's drawing state together with the list of paint       *)
(* commands issued since the backing store was last reset.                 *)
(***************************************************************************)
EXTENDS Integers, Sequences, FiniteSets, TLC

VARIABLES
    props,      \* this.props of the mounted component
    dpr,        \* window.devicePixelRatio
    mounted,    \* componentDidMount has run
    canvas,     \* the canvas element: backing store size, 2D context state, paints
    loads,      \* Image objects created by update(), by pass number
    history,    \* every paint and logoOnLoad call so far, tagged with its pass
    passes,     \* number of update() runs so far
    lastOp,     \* the handler that ran last
    rs          \* inputs of a direct drawRoundedSquare call (SpecRounded)

vars == <<props, dpr, mounted, canvas, loads, history, passes, lastOp, rs>>

----------------------------------------------------------------------------
(* Bounds *)

MaxPasses == 2

----------------------------------------------------------------------------
(* Numbers: exact rationals *)

RECURSIVE GCD(_, _)
GCD(a, b) == IF b = 0 THEN a ELSE GCD(b, a % b)

Abs(a) == IF a < 0 THEN 0 - a ELSE a

\* n/d in lowest terms with a positive denominator
Q(n, d) ==
    LET s == IF d < 0 THEN 0 - 1 ELSE 1
        g == GCD(Abs(n), Abs(d))
    IN  <<(s * n) \div g, (s * d) \div g>>

Num(n) == <<n, 1>>

Add(a, b) == Q(a[1] * b[2] + b[1] * a[2], a[2] * b[2])
Sub(a, b) == Q(a[1] * b[2] - b[1] * a[2], a[2] * b[2])
Mul(a, b) == Q(a[1] * b[1], a[2] * b[2])
Div(a, b) == Q(a[1] * b[2], a[2] * b[1])
Neg(a)    == <<0 - a[1], a[2]>>

Lt(a, b)  == a[1] * b[2] < b[1] * a[2]
Leq(a, b) == a[1] * b[2] <= b[1] * a[2]

IsZero(a) == a[1] = 0

\* Math.floor, Math.ceil, Math.round (round half up), Math.min
MathFloor(a) == Num(a[1] \div a[2])
MathCeil(a)  == Num(0 - ((0 - a[1]) \div a[2]))
MathRound(a) == MathFloor(Add(a, Q(1, 2)))
MathMin(a, b) == IF Lt(b, a) THEN b ELSE a

Half(a) == Div(a, Num(2))

----------------------------------------------------------------------------
(* JavaScript values of the polymorphic props eyeRadius and eyeColor *)

Undefined  == [t |-> "undefined"]
NaN        == [t |-> "NaN"]
JsNum(q)   == [t |-> "number", v |-> q]
JsStr(str) == [t |-> "string", v |-> str]
JsArr(seq) == [t |-> "array", v |-> seq]
\* an object with the properties inner and outer
JsIO(i, o) == [t |-> "object", inner |-> i, outer |-> o]

isArray(val) == val.t = "array"

\* arr[i] with a zero-based index: undefined past the end
at(arr, i) == IF i + 1 <= Len(arr.v) THEN arr.v[i + 1] ELSE Undefined

\* val || 0 for a radius: 0, NaN and undefined are falsy
orZero(val) ==
    IF val.t = "undefined" \/ val.t = "NaN" THEN JsNum(Num(0))
    ELSE IF val.t = "number" /\ IsZero(val.v) THEN JsNum(Num(0))
    ELSE val

truthy(val) ==
    CASE val.t = "undefined" -> FALSE
      [] val.t = "NaN"       -> FALSE
      [] val.t = "number"    -> ~IsZero(val.v)
      [] val.t = "string"    -> val.v # ""
      [] OTHER               -> TRUE

----------------------------------------------------------------------------
(* The calls made on the 2D context and on the canvas element.  A handler  *)
(* is the sequence of calls it makes; exec applies them to the canvas.     *)

\* canvas.height = canvas.width = w
setSize(w)            == [op |-> "setSize", w |-> w]
ctxScale(sx)          == [op |-> "scale", v |-> sx]
\* ctx.fillStyle = c, ctx.strokeStyle = c with c a JavaScript value
setFillStyle(c)       == [op |-> "fillStyle", v |-> c]
setStrokeStyle(c)     == [op |-> "strokeStyle", v |-> c]
setLineWidth(w)       == [op |-> "lineWidth", v |-> w]
setGlobalAlpha(a)     == [op |-> "globalAlpha", v |-> a]
ctxSave               == [op |-> "save"]
ctxRestore            == [op |-> "restore"]
beginPath             == [op |-> "beginPath"]
moveTo(x, y)          == [op |-> "moveTo", x |-> x, y |-> y]
lineTo(x, y)          == [op |-> "lineTo", x |-> x, y |-> y]
quadraticCurveTo(cpx, cpy, x, y) ==
    [op |-> "quadraticCurveTo", cpx |-> cpx, cpy |-> cpy, x |-> x, y |-> y]
bezierCurveTo(c1x, c1y, c2x, c2y, x, y) ==
    [op |-> "bezierCurveTo", c1x |-> c1x, c1y |-> c1y,
     c2x |-> c2x, c2y |-> c2y, x |-> x, y |-> y]
\* arc(x, y, r, 0, 2 * Math.PI, false): a full circle
arc(x, y, r)          == [op |-> "arc", x |-> x, y |-> y, r |-> r]
\* ellipse(x, y, rx, ry, 0, 0, 2 * Math.PI): a full ellipse
ellipse(x, y, rx, ry) == [op |-> "ellipse", x |-> x, y |-> y, rx |-> rx, ry |-> ry]
closePath             == [op |-> "closePath"]
\* moveTo (k = 0) or lineTo the vertex
\* (cx + r cos(k * 2 PI / n), cy + sgn * r sin(k * 2 PI / n))
vertexTo(cx, cy, r, k, n, sgn) ==
    [op |-> IF k = 0 THEN "moveToVertex" ELSE "lineToVertex",
     cx |-> cx, cy |-> cy, r |-> r, k |-> k, n |-> n, sgn |-> sgn]
ctxStroke             == [op |-> "stroke"]
ctxFill               == [op |-> "fill"]
fillRect(x, y, w, h)  == [op |-> "fillRect", x |-> x, y |-> y, w |-> w, h |-> h]
drawImage(image, x, y, w, h) ==
    [op |-> "drawImage", image |-> image, x |-> x, y |-> y, w |-> w, h |-> h]
\* reading a property of undefined: a TypeError leaves the handler
throw                 == [op |-> "throw"]
\* which part of update() is running (bookkeeping, no effect on the paints)
setTag(kind, cell)    == [op |-> "tag", kind |-> kind, cell |-> cell]

PathOps == {"moveTo", "lineTo", "quadraticCurveTo", "bezierCurveTo", "arc",
            "ellipse", "closePath", "moveToVertex", "lineToVertex"}

\* drawing state of a context whose backing store was just (re)allocated
DefaultState ==
    [ scale       |-> Num(1),
      fillStyle   |-> "#000000",
      strokeStyle |-> "#000000",
      lineWidth   |-> Num(1),
      globalAlpha |-> Num(1) ]

StateOf(cv) ==
    [ scale       |-> cv.scale,
      fillStyle   |-> cv.fillStyle,
      strokeStyle |-> cv.strokeStyle,
      lineWidth   |-> cv.lineWidth,
      globalAlpha |-> cv.globalAlpha ]

\* <canvas width=w height=w>: empty bitmap, default drawing state
NewCanvas(w) ==
    [ width       |-> w,
      height      |-> w,
      scale       |-> DefaultState.scale,
      fillStyle   |-> DefaultState.fillStyle,
      strokeStyle |-> DefaultState.strokeStyle,
      lineWidth   |-> DefaultState.lineWidth,
      globalAlpha |-> DefaultState.globalAlpha,
      stack       |-> <<>>,
      path        |-> <<>>,
      tag         |-> [kind |-> "none", cell |-> <<0, 0>>],
      thrown      |-> FALSE,
      cmds        |-> <<>> ]

setCanvasSizeKeep(cv, w) == [cv EXCEPT !.width = w, !.height = w]

\* assigning a dimension clears the bitmap and resets the context to its
\* default state, whatever was there before
setCanvasSize(cv, w) == NewCanvas(w)

restoredKeep(cv) == cv

\* ctx.restore(): the drawing state on top of the stack comes back
restored(cv) ==
    IF cv.stack = <<>> THEN cv
    ELSE [cv EXCEPT !.scale       = cv.stack[Len(cv.stack)].scale,
                    !.fillStyle   = cv.stack[Len(cv.stack)].fillStyle,
                    !.strokeStyle = cv.stack[Len(cv.stack)].strokeStyle,
                    !.lineWidth   = cv.stack[Len(cv.stack)].lineWidth,
                    !.globalAlpha = cv.stack[Len(cv.stack)].globalAlpha,
                    !.stack       = SubSeq(cv.stack, 1, Len(cv.stack) - 1)]

\* a paint as it lands on the bitmap: the call with the drawing state it used
painted(cv, o) ==
    CASE o.op = "fillRect" ->
             [op |-> "fillRect", x |-> o.x, y |-> o.y, w |-> o.w, h |-> o.h,
              style |-> cv.fillStyle, alpha |-> cv.globalAlpha,
              scale |-> cv.scale, tag |-> cv.tag]
      [] o.op = "fill" ->
             [op |-> "fill", path |-> cv.path,
              style |-> cv.fillStyle, alpha |-> cv.globalAlpha,
              scale |-> cv.scale, tag |-> cv.tag]
      [] o.op = "stroke" ->
             [op |-> "stroke", path |-> cv.path,
              style |-> cv.strokeStyle, lineWidth |-> cv.lineWidth,
              alpha |-> cv.globalAlpha, scale |-> cv.scale, tag |-> cv.tag]
      [] o.op = "drawImage" ->
             [op |-> "drawImage", image |-> o.image,
              x |-> o.x, y |-> o.y, w |-> o.w, h |-> o.h,
              alpha |-> cv.globalAlpha, scale |-> cv.scale, tag |-> cv.tag]

\* the effect of one call; a style that is not a colour string and an alpha
\* outside [0, 1] are ignored
step(cv, o) ==
    CASE o.op = "setSize"     -> setCanvasSize(cv, o.w)
      [] o.op = "scale"       -> [cv EXCEPT !.scale = Mul(cv.scale, o.v)]
      [] o.op = "fillStyle"   ->
             IF o.v.t = "string" THEN [cv EXCEPT !.fillStyle = o.v.v] ELSE cv
      [] o.op = "strokeStyle" ->
             IF o.v.t = "string" THEN [cv EXCEPT !.strokeStyle = o.v.v] ELSE cv
      [] o.op = "lineWidth"   -> [cv EXCEPT !.lineWidth = o.v]
      [] o.op = "globalAlpha" ->
             IF Leq(Num(0), o.v) /\ Leq(o.v, Num(1))
             THEN [cv EXCEPT !.globalAlpha = o.v] ELSE cv
      [] o.op = "save"        -> [cv EXCEPT !.stack = Append(cv.stack, StateOf(cv))]
      [] o.op = "restore"     -> restored(cv)
      [] o.op = "beginPath"   -> [cv EXCEPT !.path = <<>>]
      [] o.op \in PathOps     -> [cv EXCEPT !.path = Append(cv.path, o)]
      [] o.op = "tag"         ->
             [cv EXCEPT !.tag = [kind |-> o.kind, cell |-> o.cell]]
      [] o.op = "throw"       -> [cv EXCEPT !.thrown = TRUE]
      [] OTHER                -> [cv EXCEPT !.cmds = Append(cv.cmds, painted(cv, o))]

\* the calls ops[lo..hi] applied in order, up to an exception
RECURSIVE execRange(_, _, _, _)
execRange(cv, ops, lo, hi) ==
    IF lo > hi \/ cv.thrown THEN cv
    ELSE IF lo = hi THEN step(cv, ops[lo])
    ELSE execRange(execRange(cv, ops, lo, (lo + hi) \div 2),
                   ops, (lo + hi) \div 2 + 1, hi)

\* the calls of a handler, from the i-th on, applied in order
exec(cv, ops, i) == execRange(cv, ops, i, Len(ops))

----------------------------------------------------------------------------
(* drawRoundedSquare *)

clampRadiusMinOnly(r, size) ==
    IF r.t # "number" THEN NaN ELSE JsNum(MathMin(r.v, Half(size)))

\* r = Math.min(r, size / 2); return r < 0 ? 0 : r
clampRadius(r, size) ==
    IF r.t # "number" THEN NaN
    ELSE IF Lt(MathMin(r.v, Half(size)), Num(0)) THEN JsNum(Num(0))
    ELSE JsNum(MathMin(r.v, Half(size)))

\* if (!Array.isArray(radii)) radii = [radii, radii, radii, radii]
asList(radii) ==
    IF isArray(radii) THEN radii ELSE JsArr(<<radii, radii, radii, radii>>)

\* radii.map(...): the clamp applied to each element present
clampAll(list, size) ==
    JsArr([i \in 1..Len(list.v) |-> clampRadius(list.v[i], size)])

\* the four corner radii the path is built with, in the order
\* top-left, top-right, bottom-right, bottom-left; size is the shrunk side
cornerRadii(radii, size) ==
    [i \in 1..4 |-> orZero(at(clampAll(asList(radii), size), i - 1)).v]

\* if (r) ctx.quadraticCurveTo(...)
curveIf(r, cpx, cpy, x, y) ==
    IF ~IsZero(r) THEN <<quadraticCurveTo(cpx, cpy, x, y)>> ELSE <<>>

\* the path of the box at (x, y) with side size and corner radii r
roundedPath(x, y, xs, ys, r) ==
    <<beginPath, moveTo(Add(x, r[1]), y), lineTo(Sub(xs, r[2]), y)>>
      \o curveIf(r[2], xs, y, xs, Add(y, r[2]))
      \o <<lineTo(xs, Sub(ys, r[3]))>>
      \o curveIf(r[3], xs, ys, Sub(xs, r[3]), ys)
      \o <<lineTo(Add(x, r[4]), ys)>>
      \o curveIf(r[4], x, ys, x, Sub(ys, r[4]))
      \o <<lineTo(x, Add(y, r[1]))>>
      \o curveIf(r[1], x, y, Add(x, r[1]), y)
      \o <<closePath>>

adjustedSizeOnly(lineWidth, x0, y0, size0) ==
    [ x    |-> x0,
      y    |-> y0,
      size |-> Sub(size0, lineWidth),
      xs   |-> Add(x0, Sub(size0, lineWidth)),
      ys   |-> Add(y0, Sub(size0, lineWidth)) ]

\* the box after the adjustment for the stroke: origin moved in by half the
\* line width, side shrunk by the line width
adjusted(lineWidth, x0, y0, size0) ==
    [ x    |-> Add(x0, Half(lineWidth)),
      y    |-> Add(y0, Half(lineWidth)),
      size |-> Sub(size0, lineWidth),
      xs   |-> Add(Add(x0, Half(lineWidth)), Sub(size0, lineWidth)),
      ys   |-> Add(Add(y0, Half(lineWidth)), Sub(size0, lineWidth)) ]

boxPath(box, radii) ==
    roundedPath(box.x, box.y, box.xs, box.ys, cornerRadii(radii, box.size))

drawRoundedSquare(lineWidth, x0, y0, size0, color, radii, fill) ==
    <<setLineWidth(lineWidth), setFillStyle(color), setStrokeStyle(color)>>
      \o boxPath(adjusted(lineWidth, x0, y0, size0), radii)
      \o <<ctxStroke>>
      \o (IF fill THEN <<ctxFill>> ELSE <<>>)

----------------------------------------------------------------------------
(* drawPositioningPattern *)

ZeroRadii == JsArr(<<JsNum(Num(0)), JsNum(Num(0)), JsNum(Num(0)), JsNum(Num(0))>>)

\* radii: CornerRadii = [0, 0, 0, 0]
radiiOrDefault(radiiArg) ==
    IF radiiArg.t = "undefined" THEN ZeroRadii ELSE radiiArg

isInnerOuter(radii) == radii.t # "number" /\ ~isArray(radii)

radiiOuterOf(radii) == IF isInnerOuter(radii) THEN orZero(radii.outer) ELSE radii
radiiInnerOf(radii) == IF isInnerOuter(radii) THEN orZero(radii.inner) ELSE radii

colorOuterOf(color) == IF color.t # "string" THEN color.outer ELSE color
colorInnerOf(color) == IF color.t # "string" THEN color.inner ELSE color

drawPositioningPatternTransposed(cellSize, offset, row, col, color, radiiArg) ==
    IF color.t = "undefined" THEN <<throw>>
    ELSE drawRoundedSquare(MathCeil(cellSize),
                           Add(Mul(Num(row), cellSize), offset),
                           Add(Mul(Num(col), cellSize), offset),
                           Mul(cellSize, Num(7)),
                           colorOuterOf(color),
                           radiiOuterOf(radiiOrDefault(radiiArg)), FALSE)
           \o
         drawRoundedSquare(MathCeil(cellSize),
                           Add(Add(Mul(Num(row), cellSize), offset),
                               Mul(cellSize, Num(2))),
                           Add(Add(Mul(Num(col), cellSize), offset),
                               Mul(cellSize, Num(2))),
                           Mul(cellSize, Num(3)),
                           colorInnerOf(color),
                           radiiInnerOf(radiiOrDefault(radiiArg)), TRUE)

drawPositioningPattern(cellSize, offset, row, col, color, radiiArg) ==
    IF color.t = "undefined" THEN <<throw>>
    ELSE drawRoundedSquare(MathCeil(cellSize),
                           Add(Mul(Num(col), cellSize), offset),
                           Add(Mul(Num(row), cellSize), offset),
                           Mul(cellSize, Num(7)),
                           colorOuterOf(color),
                           radiiOuterOf(radiiOrDefault(radiiArg)), FALSE)
           \o
         drawRoundedSquare(MathCeil(cellSize),
                           Add(Add(Mul(Num(col), cellSize), offset),
                               Mul(cellSize, Num(2))),
                           Add(Add(Mul(Num(row), cellSize), offset),
                               Mul(cellSize, Num(2))),
                           Mul(cellSize, Num(3)),
                           colorInnerOf(color),
                           radiiInnerOf(radiiOrDefault(radiiArg)), TRUE)

----------------------------------------------------------------------------
(* isInPositioninZone *)

isInPositioninZoneNarrow(col, row, zones) ==
    \E i \in 1..Len(zones) :
        /\ row >= zones[i].row
        /\ row <= zones[i].row + 7
        /\ col >= zones[i].col
        /\ col <= zones[i].col + 5

\* declared as (col, row, zones); the callers pass (row, col, zones)
isInPositioninZone(col, row, zones) ==
    \E i \in 1..Len(zones) :
        /\ row >= zones[i].row
        /\ row <= zones[i].row + 7
        /\ col >= zones[i].col
        /\ col <= zones[i].col + 7

positioningZonesTopOnly(length) ==
    << [row |-> 0, col |-> 0],
       [row |-> 0, col |-> length - 7],
       [row |-> 0, col |-> length - 7] >>

positioningZones(length) ==
    << [row |-> 0,          col |-> 0],
       [row |-> 0,          col |-> length - 7],
       [row |-> length - 7, col |-> 0] >>

----------------------------------------------------------------------------
(* The encoder (qrcode-generator) at its boundary: a payload is identified *)
(* with the matrix it encodes to                                           *)

\* qrGenerator(0, ecLevel); addData(utf16to8(value)); make()
qrGenerator(value) == [count |-> value.count, dark |-> value.dark]

getModuleCount(qrCode) == qrCode.count
isDark(qrCode, row, col) == <<row, col>> \in qrCode.dark

\* the cells of a set in the order the nested loops
\* (for row ... for col ...) visit them
inLoopOrder(cells, length) ==
    [k \in 1..Cardinality(cells) |->
        CHOOSE c \in cells :
            Cardinality({d \in cells :
                            d[1] * length + d[2] < c[1] * length + c[2]}) = k - 1]

----------------------------------------------------------------------------
(* update(): the nine module styles *)

\* Math.round(i * cellSize) + cellSize / 2 + offset
centerOf(i, cellSize, offset) ==
    Add(Add(MathRound(Mul(Num(i), cellSize)), Half(cellSize)), offset)

\* Math.round(i * cellSize) + offset
cornerOf(i, cellSize, offset) ==
    Add(MathRound(Mul(Num(i), cellSize)), offset)

extentOfFloor(i, cellSize) ==
    Sub(MathFloor(Mul(Num(i + 1), cellSize)), MathFloor(Mul(Num(i), cellSize)))

\* Math.ceil((i + 1) * cellSize) - Math.floor(i * cellSize)
extentOf(i, cellSize) ==
    Sub(MathCeil(Mul(Num(i + 1), cellSize)), MathFloor(Mul(Num(i), cellSize)))

\* for (i = 0; i < count; i++) { moveTo or lineTo vertex i }
polygon(cx, cy, rEven, rOdd, count, n, sgn) ==
    [j \in 1..count |->
        vertexTo(cx, cy, IF (j - 1) % 2 = 0 THEN rEven ELSE rOdd, j - 1, n, sgn)]

heartPath(centerX, centerY, radius) ==
    <<beginPath,
      moveTo(centerX, Add(centerY, radius)),
      bezierCurveTo(Add(centerX, radius), Add(centerY, Div(radius, Q(3, 2))),
                    Add(centerX, Mul(radius, Num(2))),
                    Sub(centerY, Div(radius, Num(3))),
                    centerX, Sub(centerY, Mul(radius, Num(2)))),
      bezierCurveTo(Sub(centerX, Mul(radius, Num(2))),
                    Sub(centerY, Div(radius, Num(3))),
                    Sub(centerX, radius), Add(centerY, Div(radius, Q(3, 2))),
                    centerX, Add(centerY, radius)),
      closePath, ctxFill>>

paintHeart(row, col, cellSize, offset) ==
    heartPath(centerOf(col, cellSize, offset), centerOf(row, cellSize, offset),
              Div(cellSize, Num(4)))

\* starPoints = 5, outerRadius = cellSize / 2, innerRadius = outerRadius / 2
paintStar(row, col, cellSize, offset) ==
    <<beginPath>>
      \o polygon(centerOf(col, cellSize, offset), centerOf(row, cellSize, offset),
                 Half(cellSize), Half(Half(cellSize)), 10, 10, 0 - 1)
      \o <<closePath, ctxFill>>

diamondPath(centerX, centerY, halfCellSize) ==
    <<beginPath,
      moveTo(centerX, Sub(centerY, halfCellSize)),
      lineTo(Add(centerX, halfCellSize), centerY),
      lineTo(centerX, Add(centerY, halfCellSize)),
      lineTo(Sub(centerX, halfCellSize), centerY),
      closePath, ctxFill>>

paintDiamond(row, col, cellSize, offset) ==
    diamondPath(centerOf(col, cellSize, offset), centerOf(row, cellSize, offset),
                Half(cellSize))

\* octagons, pentagons, triangles
paintNgon(numSides, row, col, cellSize, offset) ==
    <<beginPath>>
      \o polygon(centerOf(col, cellSize, offset), centerOf(row, cellSize, offset),
                 Half(cellSize), Half(cellSize), numSides, numSides, 1)
      \o <<closePath, ctxFill>>

\* ctx.arc(centerX, centerY, (radius / 100) * 75, 0, 2 * Math.PI, false)
paintDot(row, col, cellSize, offset) ==
    <<beginPath,
      arc(centerOf(col, cellSize, offset), centerOf(row, cellSize, offset),
          Mul(Div(Half(cellSize), Num(100)), Num(75))),
      closePath, ctxFill>>

\* the neighbour tests of the fluid style
isDarkUp(qrCode, row, col)   == row > 0 /\ isDark(qrCode, row - 1, col)
isDarkDown(qrCode, row, col) ==
    row < getModuleCount(qrCode) - 1 /\ isDark(qrCode, row + 1, col)
isDarkLeft(qrCode, row, col) == col > 0 /\ isDark(qrCode, row, col - 1)

isDarkRightOffByOne(qrCode, row, col) ==
    col < getModuleCount(qrCode) - 1 /\ isDark(qrCode, row, col - 1)

isDarkRight(qrCode, row, col) ==
    col < getModuleCount(qrCode) - 1 /\ isDark(qrCode, row, col + 1)

\* one corner of a fluid cell: if (round) { lineTo; quadraticCurveTo }
\* else { lineTo the corner }
fluidCorner(round, lx, ly, cpx, cpy, x, y) ==
    IF round THEN <<lineTo(lx, ly), quadraticCurveTo(cpx, cpy, x, y)>>
    ELSE <<lineTo(cpx, cpy)>>

\* the path of the cell x..xw, y..yh with the neighbours up, right, down, left
fluidPath(x, y, xw, yh, radius, up, right, down, left) ==
    <<beginPath,
      IF ~up /\ ~left THEN moveTo(Add(x, radius), y) ELSE moveTo(x, y)>>
      \o fluidCorner(~up /\ ~right, Sub(xw, radius), y, xw, y, xw, Add(y, radius))
      \o fluidCorner(~right /\ ~down, xw, Sub(yh, radius), xw, yh,
                     Sub(xw, radius), yh)
      \o fluidCorner(~down /\ ~left, Add(x, radius), yh, x, yh, x, Sub(yh, radius))
      \o fluidCorner(~left /\ ~up, x, Add(y, radius), x, y, Add(x, radius), y)
      \o <<closePath, ctxFill>>

paintFluid(qrCode, row, col, cellSize, offset, fgColor) ==
    <<setFillStyle(JsStr(fgColor))>>
      \o fluidPath(cornerOf(col, cellSize, offset),
                   cornerOf(row, cellSize, offset),
                   Add(cornerOf(col, cellSize, offset), extentOf(col, cellSize)),
                   Add(cornerOf(row, cellSize, offset), extentOf(row, cellSize)),
                   Div(cellSize, Q(3, 2)),
                   isDarkUp(qrCode, row, col), isDarkRight(qrCode, row, col),
                   isDarkDown(qrCode, row, col), isDarkLeft(qrCode, row, col))

paintSquare(row, col, cellSize, offset, fgColor) ==
    <<setFillStyle(JsStr(fgColor)),
      fillRect(cornerOf(col, cellSize, offset), cornerOf(row, cellSize, offset),
               extentOf(col, cellSize), extentOf(row, cellSize))>>

\* the body of the if inside the two loops, by branch of the qrStyle chain
paintModule(qrStyle, qrCode, row, col, cellSize, offset, fgColor) ==
    CASE qrStyle = "hearts"    -> paintHeart(row, col, cellSize, offset)
      [] qrStyle = "stars"     -> paintStar(row, col, cellSize, offset)
      [] qrStyle = "diamonds"  -> paintDiamond(row, col, cellSize, offset)
      [] qrStyle = "octagons"  -> paintNgon(8, row, col, cellSize, offset)
      [] qrStyle = "pentagons" -> paintNgon(5, row, col, cellSize, offset)
      [] qrStyle = "triangles" -> paintNgon(3, row, col, cellSize, offset)
      [] qrStyle = "dots"      -> paintDot(row, col, cellSize, offset)
      [] qrStyle = "fluid"     ->
             paintFluid(qrCode, row, col, cellSize, offset, fgColor)
      [] OTHER                 ->
             paintSquare(row, col, cellSize, offset, fgColor)

\* the statements of a style branch before its loops
beforeLoops(qrStyle, fgColor) ==
    IF qrStyle \in {"hearts", "stars", "diamonds", "octagons",
                    "pentagons", "triangles", "dots"}
    THEN <<setFillStyle(JsStr(fgColor))>>
    ELSE <<>>

\* the condition guarding a module's paint
isPainted(qrCode, row, col, zones) ==
    isDark(qrCode, row, col) /\ ~isInPositioninZone(row, col, zones)

\* the calls of the loop body for the cells lo..hi of the list, in order
RECURSIVE paintCells(_, _, _, _, _, _, _, _)
paintCells(cells, lo, hi, qrStyle, qrCode, cellSize, offset, fgColor) ==
    IF lo > hi THEN <<>>
    ELSE IF lo = hi
    THEN <<setTag("module", cells[lo])>>
           \o paintModule(qrStyle, qrCode, cells[lo][1], cells[lo][2],
                          cellSize, offset, fgColor)
    ELSE paintCells(cells, lo, (lo + hi) \div 2,
                    qrStyle, qrCode, cellSize, offset, fgColor)
           \o paintCells(cells, (lo + hi) \div 2 + 1, hi,
                         qrStyle, qrCode, cellSize, offset, fgColor)

\* the cells the two loops paint, in loop order
cellsToPaint(qrCode, zones) ==
    inLoopOrder({c \in qrCode.dark : isPainted(qrCode, c[1], c[2], zones)},
                getModuleCount(qrCode))

paintModules(qrStyle, qrCode, zones, cellSize, offset, fgColor) ==
    beforeLoops(qrStyle, fgColor)
      \o paintCells(cellsToPaint(qrCode, zones),
                    1, Len(cellsToPaint(qrCode, zones)),
                    qrStyle, qrCode, cellSize, offset, fgColor)

----------------------------------------------------------------------------
(* update(): the eyes *)

\* a single number stands for the four corners
fourfold(radii) ==
    IF radii.t = "number" THEN JsArr(<<radii, radii, radii, radii>>) ELSE radii

\* the radii argument update() passes for eye i
eyeRadii(eyeRadius, i) ==
    fourfold(IF isArray(eyeRadius) THEN at(eyeRadius, i) ELSE eyeRadius)

\* the color argument update() passes for eye i
eyeColorOf(eyeColor, fgColor, i) ==
    IF ~truthy(eyeColor) THEN JsStr(fgColor)
    ELSE IF isArray(eyeColor) THEN at(eyeColor, i)
    ELSE eyeColor

\* the body of for (let i = 0; i < 3; i++) { ... }
drawEye(i, zones, cellSize, offset, eyeRadius, eyeColor, fgColor) ==
    <<setTag("eye", <<i, i>>)>>
      \o drawPositioningPattern(cellSize, offset,
                                zones[i + 1].row, zones[i + 1].col,
                                eyeColorOf(eyeColor, fgColor, i),
                                eyeRadii(eyeRadius, i))

drawEyes(zones, cellSize, offset, eyeRadius, eyeColor, fgColor) ==
    drawEye(0, zones, cellSize, offset, eyeRadius, eyeColor, fgColor)
      \o drawEye(1, zones, cellSize, offset, eyeRadius, eyeColor, fgColor)
      \o drawEye(2, zones, cellSize, offset, eyeRadius, eyeColor, fgColor)

----------------------------------------------------------------------------
(* update(): the synchronous paint *)

\* this.props.x ? +this.props.x : 0
numberOrZero(val) == IF truthy(val) /\ val.t = "number" THEN val.v ELSE Num(0)

scaleOfRaw(ratio) == ratio

\* window.devicePixelRatio || 1
scaleOf(ratio) == IF IsZero(ratio) THEN Num(1) ELSE ratio

\* canvasSize = +size + 2 * +quietZone
canvasSizeOf(p) == Add(p.size, Mul(Num(2), p.quietZone))

\* cellSize = size / length
cellSizeOf(p) == Div(p.size, Num(getModuleCount(qrGenerator(p.value))))

zonesOf(p) == positioningZones(getModuleCount(qrGenerator(p.value)))

\* canvas.height = canvas.width = canvasSize * scale; ctx.scale(scale, scale)
resize(p, ratio) ==
    <<setSize(Mul(canvasSizeOf(p), scaleOf(ratio))), ctxScale(scaleOf(ratio))>>

background(canvasSize, bgColor) ==
    <<setTag("background", <<0, 0>>),
      setFillStyle(JsStr(bgColor)),
      fillRect(Num(0), Num(0), canvasSize, canvasSize)>>

\* dWidthLogo = logoWidth || size * 0.2
dWidthLogoOf(p) ==
    IF ~IsZero(numberOrZero(p.logoWidth)) THEN numberOrZero(p.logoWidth)
    ELSE Mul(p.size, Q(1, 5))

dHeightLogoFromSize(p) ==
    IF ~IsZero(numberOrZero(p.logoHeight)) THEN numberOrZero(p.logoHeight)
    ELSE Mul(p.size, Q(1, 5))

\* dHeightLogo = logoHeight || dWidthLogo
dHeightLogoOf(p) ==
    IF ~IsZero(numberOrZero(p.logoHeight)) THEN numberOrZero(p.logoHeight)
    ELSE dWidthLogoOf(p)

dxLogoOf(p) == Half(Sub(p.size, dWidthLogoOf(p)))
dyLogoOf(p) == Half(Sub(p.size, dHeightLogoOf(p)))

\* the occlusion test of a module against the logo's bounding box
transformPixelLengthIntoNumberOfCells(pixelLength, cellSize) ==
    Div(pixelLength, cellSize)

isCoordinateInImage(col, row, dWidthLogo, dHeightLogo, dxLogo, dyLogo, cellSize, logoImage) ==
    IF truthy(logoImage)
    THEN /\ Leq(Sub(transformPixelLengthIntoNumberOfCells(dxLogo, cellSize),
                    Num(2)), Num(row))
         /\ Leq(Num(row),
                Add(Add(transformPixelLengthIntoNumberOfCells(dxLogo, cellSize),
                        Sub(transformPixelLengthIntoNumberOfCells(dWidthLogo,
                                                                  cellSize),
                            Num(1))),
                    Num(2)))
         /\ Leq(Sub(transformPixelLengthIntoNumberOfCells(dyLogo, cellSize),
                    Num(2)), Num(col))
         /\ Leq(Num(col),
                Add(Add(transformPixelLengthIntoNumberOfCells(dyLogo, cellSize),
                        Sub(transformPixelLengthIntoNumberOfCells(dHeightLogo,
                                                                  cellSize),
                            Num(1))),
                    Num(2)))
    ELSE FALSE

modulesOfOutsideLogo(p) ==
    paintModules(p.qrStyle,
                 [qrGenerator(p.value) EXCEPT !.dark =
                     {c \in qrGenerator(p.value).dark :
                         ~isCoordinateInImage(c[2], c[1],
                                              dWidthLogoOf(p), dHeightLogoOf(p),
                                              dxLogoOf(p), dyLogoOf(p),
                                              cellSizeOf(p), p.logoImage)}],
                 zonesOf(p), cellSizeOf(p), p.quietZone, p.fgColor)

\* the module loops are run for every dark module: the occlusion test is
\* not called
modulesOf(p) ==
    paintModules(p.qrStyle, qrGenerator(p.value), zonesOf(p),
                 cellSizeOf(p), p.quietZone, p.fgColor)

eyesOf(p) ==
    drawEyes(zonesOf(p), cellSizeOf(p), p.quietZone,
             p.eyeRadius, p.eyeColor, p.fgColor)

updateEyesFirst(p, ratio) ==
    resize(p, ratio)
      \o background(canvasSizeOf(p), p.bgColor)
      \o <<setStrokeStyle(JsStr(p.fgColor))>>
      \o eyesOf(p)
      \o modulesOf(p)

\* the calls update() makes on the canvas before it returns
update(p, ratio) ==
    resize(p, ratio)
      \o background(canvasSizeOf(p), p.bgColor)
      \o <<setStrokeStyle(JsStr(p.fgColor))>>
      \o modulesOf(p)
      \o eyesOf(p)

\* if (logoImage) { const image = new Image(); ...; image.src = logoImage }
startsLoad(cv, p) == ~cv.thrown /\ truthy(p.logoImage)

\* render(): the canvas element's width and height attributes
qrSizeOf(p) == Add(p.size, Mul(Num(2), p.quietZone))
render(cv, p) ==
    IF cv.width = qrSizeOf(p) /\ cv.height = qrSizeOf(p) THEN cv
    ELSE setCanvasSize(cv, qrSizeOf(p))

----------------------------------------------------------------------------
(* image.onload: the logo overlay *)

\* the padded box: x, y, width, height
paddedBox(dWidthLogo, dHeightLogo, dxLogo, dyLogo, offset, logoPadding) ==
    [ x |-> Sub(Add(dxLogo, offset), logoPadding),
      y |-> Sub(Add(dyLogo, offset), logoPadding),
      w |-> Add(dWidthLogo, Mul(Num(2), logoPadding)),
      h |-> Add(dHeightLogo, Mul(Num(2), logoPadding)) ]

clearShapeUnstroked(box, logoPaddingStyle) ==
    IF logoPaddingStyle = "circle"
    THEN <<ellipse(Add(box.x, Half(box.w)), Add(box.y, Half(box.h)),
                   Half(box.w), Half(box.h)),
           ctxFill>>
    ELSE <<fillRect(box.x, box.y, box.w, box.h)>>

clearShape(box, logoPaddingStyle) ==
    IF logoPaddingStyle = "circle"
    THEN <<ellipse(Add(box.x, Half(box.w)), Add(box.y, Half(box.h)),
                   Half(box.w), Half(box.h)),
           ctxStroke, ctxFill>>
    ELSE <<fillRect(box.x, box.y, box.w, box.h)>>

clearBehindLogo(p) ==
    <<setTag("clear", <<0, 0>>), beginPath,
      setStrokeStyle(JsStr(p.bgColor)), setFillStyle(JsStr(p.bgColor))>>
      \o clearShape(paddedBox(dWidthLogoOf(p), dHeightLogoOf(p),
                              dxLogoOf(p), dyLogoOf(p), p.quietZone,
                              numberOrZero(p.logoPadding)),
                    p.logoPaddingStyle)

\* the calls the handler makes; p is the props captured by the pass that
\* created the image
onload(p) ==
    <<ctxSave>>
      \o (IF p.removeQrCodeBehindLogo \/ ~IsZero(numberOrZero(p.logoPadding))
          THEN clearBehindLogo(p) ELSE <<>>)
      \o <<setGlobalAlpha(p.logoOpacity),
           setTag("logo", <<0, 0>>),
           drawImage(p.logoImage.v,
                     Add(dxLogoOf(p), p.quietZone), Add(dyLogoOf(p), p.quietZone),
                     dWidthLogoOf(p), dHeightLogoOf(p)),
           ctxRestore>>

----------------------------------------------------------------------------
(* Inputs *)

Styles == {"squares", "hearts", "diamonds", "stars", "octagons",
           "pentagons", "triangles", "dots", "fluid"}

\* getModuleCount() of a version v symbol is 4 v + 17
ModuleCounts == {21, 25}

Grid(length) == (0..(length - 1)) \X (0..(length - 1))

Around(c) == {<<c[1] - 1, c[2]>>, <<c[1] + 1, c[2]>>,
              <<c[1], c[2] - 1>>, <<c[1], c[2] + 1>>}

\* rows and columns at the edges of the grid and of the zones; with the
\* neighbours of a cell they reach 1, 6, 8, 10, length - 8 and length - 6 too
ProbeCoords(length) == {0, 7, 9, length - 7, length - 1}

Payload(length, c, nb) == [count |-> length, dark |-> {c} \cup nb]

\* payloads whose matrix is one dark cell with any of its neighbours dark
ProbePayloads ==
    UNION { UNION { { Payload(n, c, nb \cap Grid(n)) : nb \in SUBSET Around(c) } :
                    c \in ProbeCoords(n) \X ProbeCoords(n) } :
            n \in ModuleCounts }

defaultProps ==
    [ value                  |-> Payload(21, <<10, 10>>, {}),
      enableCORS             |-> FALSE,
      size                   |-> Num(150),
      quietZone              |-> Num(10),
      bgColor                |-> "#FFFFFF",
      fgColor                |-> "#000000",
      logoImage              |-> Undefined,
      logoWidth              |-> Undefined,
      logoHeight             |-> Undefined,
      logoOpacity            |-> Num(1),
      logoOnLoad             |-> FALSE,
      removeQrCodeBehindLogo |-> FALSE,
      logoPadding            |-> Undefined,
      logoPaddingStyle       |-> "square",
      eyeRadius              |-> JsArr(<<JsNum(Num(0)), JsNum(Num(0)),
                                         JsNum(Num(0))>>),
      eyeColor               |-> Undefined,
      qrStyle                |-> "squares" ]

\* the configurations of the paint-only specification
PaintSizes == {Num(32), Num(150)}

PaintProps ==
    { [defaultProps EXCEPT !.value = v, !.qrStyle = st, !.size = sz] :
        v \in ProbePayloads, st \in Styles, sz \in PaintSizes }

\* the configurations of the full specification
SomePayloads ==
    { Payload(21, <<10, 10>>, {<<0, 0>>, <<10, 11>>, <<20, 20>>}),
      Payload(25, <<12, 3>>, {<<13, 3>>, <<24, 0>>}) }

LogoOptions ==
    { [logoImage |-> Undefined, logoOnLoad |-> TRUE,
       removeQrCodeBehindLogo |-> FALSE, logoPaddingStyle |-> "square",
       logoOpacity |-> Num(1)],
      [logoImage |-> JsStr("logo.png"), logoOnLoad |-> TRUE,
       removeQrCodeBehindLogo |-> FALSE, logoPaddingStyle |-> "square",
       logoOpacity |-> Num(1)],
      [logoImage |-> JsStr("logo.png"), logoOnLoad |-> FALSE,
       removeQrCodeBehindLogo |-> TRUE, logoPaddingStyle |-> "circle",
       logoOpacity |-> Q(1, 2)] }

SomeProps ==
    { [defaultProps EXCEPT !.value = v, !.qrStyle = st,
                           !.logoImage = lo.logoImage,
                           !.logoOnLoad = lo.logoOnLoad,
                           !.removeQrCodeBehindLogo = lo.removeQrCodeBehindLogo,
                           !.logoPaddingStyle = lo.logoPaddingStyle,
                           !.logoOpacity = lo.logoOpacity] :
        v \in SomePayloads, st \in {"squares", "fluid"}, lo \in LogoOptions }

\* 0 stands for a host without window.devicePixelRatio
PixelRatios == {Num(0), Num(2)}

----------------------------------------------------------------------------
(* The component *)

NoCall == [lineWidth |-> Num(0), x |-> Num(0), y |-> Num(0), size |-> Num(0),
           radii |-> JsNum(Num(0)), fill |-> FALSE]

InitWith(P, R) ==
    /\ props \in P
    /\ dpr \in R
    /\ mounted = FALSE
    /\ canvas = NewCanvas(qrSizeOf(props))
    /\ loads = <<>>
    /\ history = <<>>
    /\ passes = 0
    /\ lastOp = [op |-> "constructor", pass |-> 0]
    /\ rs = NoCall

Init == InitWith(SomeProps, PixelRatios)

\* the paints of one handler run, tagged with the pass they belong to
tagged(cmds, pass) == [i \in 1..Len(cmds) |-> [pass |-> pass, cmd |-> cmds[i]]]

\* the Image a pass creates: its handler closes over the props of that pass
newLoad(pass, p) == [pass |-> pass, props |-> p, status |-> "pending",
                     failed |-> FALSE]

\* update() has run as pass number passes + 1 with props p and left the
\* canvas as after
Ran(after, p, op) ==
    /\ canvas' = after
    /\ passes' = passes + 1
    /\ history' = history \o tagged(after.cmds, passes + 1)
    /\ loads' = IF startsLoad(after, p)
                THEN Append(loads, newLoad(passes + 1, p))
                ELSE loads
    /\ lastOp' = [op |-> op, pass |-> passes + 1]

\* update() run with props p on canvas cv
RunUpdate(cv, p, op) == Ran(exec(cv, update(p, dpr), 1), p, op)

componentDidMount ==
    /\ ~mounted
    /\ mounted' = TRUE
    /\ RunUpdate(canvas, props, "mount")
    /\ UNCHANGED <<props, dpr, rs>>

\* new props from P that differ (shouldComponentUpdate), render(), then
\* update()
receiveProps(P) ==
    /\ mounted
    /\ passes < MaxPasses
    /\ \E nextProps \in P :
        /\ nextProps # props
        /\ props' = nextProps
        /\ RunUpdate(render(canvas, nextProps), nextProps, "update")
    /\ UNCHANGED <<dpr, mounted, rs>>

componentDidUpdate == receiveProps(SomeProps)

\* forceUpdate(): render() and componentDidUpdate() with the props unchanged
forceUpdate ==
    /\ mounted
    /\ passes < MaxPasses
    /\ RunUpdate(render(canvas, props), props, "forceUpdate")
    /\ UNCHANGED <<props, dpr, mounted, rs>>

\* the props the handler of a load sees: those captured when it was created
captured(load, current) == load.props

cancelledIfStale(load, latest) == load.pass < latest

\* the handler starts painting unconditionally: it never asks whether a
\* later pass has run since its image was created
cancelled(load, latest) == FALSE

handlerTraceCallFirst(paints, p, pass) ==
    (IF p.logoOnLoad
     THEN <<[pass |-> pass, cmd |-> [op |-> "logoOnLoad"]]>>
     ELSE <<>>)
      \o tagged(paints, pass)

\* what the handler does, in order: the overlay paints, then logoOnLoad(e)
handlerTrace(paints, p, pass) ==
    tagged(paints, pass)
      \o (IF p.logoOnLoad
          THEN <<[pass |-> pass, cmd |-> [op |-> "logoOnLoad"]]>>
          ELSE <<>>)

\* the handler of the load of pass has run with props p and left the canvas
\* as after
Loaded(after, p, pass) ==
    /\ canvas' = after
    /\ history' = history \o
           handlerTrace(SubSeq(after.cmds, Len(canvas.cmds) + 1, Len(after.cmds)),
                        p, pass)

\* the host fires the load event of a pending image
imageOnLoad ==
    \E i \in 1..Len(loads) :
        /\ loads[i].status = "pending"
        /\ IF cancelled(loads[i], passes)
           THEN UNCHANGED <<canvas, history>>
           ELSE Loaded(exec(canvas, onload(captured(loads[i], props)), 1),
                       captured(loads[i], props), loads[i].pass)
        /\ loads' = [loads EXCEPT ![i].status = "loaded"]
        /\ lastOp' = [op |-> "onload", pass |-> loads[i].pass]
        /\ UNCHANGED <<props, dpr, mounted, passes, rs>>

afterErrorRetry(load) == [load EXCEPT !.status = "pending", !.failed = TRUE]

\* no onerror handler is registered and image.src is assigned once
afterError(load) == [load EXCEPT !.status = "failed", !.failed = TRUE]

\* the host fires the error event of a pending image (missing, undecodable,
\* or blocked by the cross-origin policy)
imageOnError ==
    \E i \in 1..Len(loads) :
        /\ loads[i].status = "pending"
        /\ loads' = [loads EXCEPT ![i] = afterError(loads[i])]
        /\ lastOp' = [op |-> "onerror", pass |-> loads[i].pass]
        /\ UNCHANGED <<props, dpr, mounted, canvas, history, passes, rs>>

Next ==
    \/ componentDidMount
    \/ componentDidUpdate
    \/ forceUpdate
    \/ imageOnLoad
    \/ imageOnError

Spec == Init /\ [][Next]_vars

----------------------------------------------------------------------------
(* Other specifications *)

\* the synchronous paint alone, over every probe matrix, style and size
InitPaint == InitWith(PaintProps, {Num(0)})
NextPaint == componentDidMount
SpecPaint == InitPaint /\ [][NextPaint]_vars

\* drawRoundedSquare alone, over line widths, sides and radius inputs
RadiusValues == {Num(0 - 1), Num(0), Num(3), Num(50)}

RadiiInputs ==
    {JsNum(r) : r \in RadiusValues}
      \cup {JsArr(<<JsNum(a), JsNum(b), JsNum(c), JsNum(d)>>) :
               a \in RadiusValues, b \in RadiusValues,
               c \in RadiusValues, d \in RadiusValues}

RoundedInputs ==
    [ lineWidth : {Num(0), Num(1), Num(4)},
      x         : {Num(10), Q(1, 2)},
      y         : {Num(20)},
      size      : {Num(0), Num(2), Num(7), Q(150, 7)},
      radii     : RadiiInputs,
      fill      : BOOLEAN ]

InitRounded ==
    /\ props = defaultProps
    /\ dpr = Num(0)
    /\ mounted = FALSE
    /\ canvas = NewCanvas(qrSizeOf(props))
    /\ loads = <<>>
    /\ history = <<>>
    /\ passes = 0
    /\ lastOp = [op |-> "constructor", pass |-> 0]
    /\ rs \in RoundedInputs

callDrawRoundedSquare ==
    /\ lastOp.op = "constructor"
    /\ canvas' = exec(canvas,
                      drawRoundedSquare(rs.lineWidth, rs.x, rs.y, rs.size,
                                        JsStr(props.fgColor), rs.radii, rs.fill),
                      1)
    /\ lastOp' = [op |-> "drawRoundedSquare", pass |-> 0]
    /\ UNCHANGED <<props, dpr, mounted, loads, history, passes, rs>>

NextRounded == callDrawRoundedSquare
SpecRounded == InitRounded /\ [][NextRounded]_vars

\* the eyes alone, over radius and colour specifications of every form
EyeRadiusOptions ==
    { JsArr(<<JsNum(Num(0)), JsNum(Num(0)), JsNum(Num(0))>>),
      JsNum(Num(5)),
      JsIO(JsNum(Num(0)), JsNum(Num(20))),
      JsArr(<<JsNum(Num(2)), JsNum(Num(0)), JsNum(Num(1)), JsNum(Num(3))>>),
      JsIO(JsArr(<<JsNum(Num(1)), JsNum(Num(0)), JsNum(Num(1)), JsNum(Num(0))>>),
           JsNum(Num(3))),
      JsArr(<<JsNum(Num(10)), JsNum(Num(0)), JsNum(Num(50))>>),
      JsArr(<<JsArr(<<JsNum(Num(10)), JsNum(Num(10)),
                      JsNum(Num(0)), JsNum(Num(10))>>),
              JsIO(JsNum(Num(2)), JsArr(<<JsNum(Num(0)), JsNum(Num(8)),
                                          JsNum(Num(8)), JsNum(Num(0))>>)),
              JsNum(Num(3))>>) }

EyeColorOptions ==
    { Undefined,
      JsStr("red"),
      JsIO(JsStr("blue"), JsStr("green")),
      JsArr(<<JsStr("red"), JsStr("blue"), JsStr("green")>>),
      JsArr(<<JsIO(JsStr("blue"), JsStr("green")), JsStr("red"),
              JsIO(JsStr("red"), JsStr("red"))>>),
      JsArr(<<JsIO(JsStr("#FF0000"), JsStr("#0000FF"))>>),
      JsArr(<<JsStr("red"), Undefined, JsStr("blue")>>) }

EyeQuietZones == {Num(0), Num(10)}

EyeProps ==
    { [defaultProps EXCEPT !.value = v, !.size = sz, !.quietZone = qz,
                           !.eyeRadius = er, !.eyeColor = ec] :
        v \in SomePayloads, sz \in PaintSizes, qz \in EyeQuietZones,
        er \in EyeRadiusOptions, ec \in EyeColorOptions }

SpecEyes == InitWith(EyeProps, {Num(0)}) /\ [][componentDidMount]_vars


\* one pass and the completion of its logo load, over the logo options; an
\* opacity outside [0, 1] is an assignment the context ignores
LogoProps ==
    { [defaultProps EXCEPT !.logoImage = JsStr("logo.png"),
                           !.size = sz, !.quietZone = qz,
                           !.logoWidth = lw, !.logoHeight = lh,
                           !.logoPadding = lp,
                           !.removeQrCodeBehindLogo = rm,
                           !.logoPaddingStyle = ps,
                           !.logoOpacity = op] :
        sz \in {Num(150), Num(75)},
        qz \in {Num(0), Num(10)},
        lw \in {Undefined, JsNum(Num(0)), JsNum(Num(40))},
        lh \in {Undefined, JsNum(Num(30))},
        lp \in {Undefined, JsNum(Num(0)), JsNum(Num(5)), JsNum(Num(0 - 3))},
        rm \in BOOLEAN,
        ps \in {"square", "circle"},
        op \in {Num(1), Q(1, 2), Num(2)} }

SpecLogo ==
    InitWith(LogoProps, {Num(0)}) /\ [][componentDidMount \/ imageOnLoad]_vars


\* render passes over sizes, quiet zones, background colours and pixel ratios
SurfaceProps ==
    { [defaultProps EXCEPT !.size = sz, !.quietZone = qz, !.bgColor = bg] :
        sz \in PaintSizes, qz \in EyeQuietZones, bg \in {"#FFFFFF", "#EEEEEE"} }

surfaceDidUpdate == receiveProps(SurfaceProps)

SpecSurface ==
    InitWith(SurfaceProps, {Num(0), Num(2), Q(3, 2)})
      /\ [][componentDidMount \/ surfaceDidUpdate \/ forceUpdate]_vars


\* the squares style over every integer size up to MaxSquareSize, on a
\* matrix whose row 10 and column 10 are dark: every index i occurs on both
\* axes with its neighbour i + 1
MaxSquareSize == 64

Cross(length) ==
    [count |-> length,
     dark  |-> {c \in Grid(length) : c[1] = 10 \/ c[2] = 10}]

SquareProps ==
    { [defaultProps EXCEPT !.value = Cross(n), !.size = Num(sz),
                           !.quietZone = qz, !.qrStyle = "squares"] :
        n \in ModuleCounts, sz \in 1..MaxSquareSize, qz \in EyeQuietZones }

SpecSquares == InitWith(SquareProps, {Num(0)}) /\ [][componentDidMount]_vars


----------------------------------------------------------------------------
(* Properties of the module painting (SpecPaint) *)

\* the 7x7 finder zones anchored at (0,0), (0,N-7) and (N-7,0)
InFinderZone(row, col, length) ==
    \/ row \in 0..6 /\ col \in 0..6
    \/ row \in 0..6 /\ col \in (length - 7)..(length - 1)
    \/ row \in (length - 7)..(length - 1) /\ col \in 0..6

Matrix == qrGenerator(props.value)

\* positions, in the list of paints on the canvas, of the module paints
ModulePaints == {i \in 1..Len(canvas.cmds) : canvas.cmds[i].tag.kind = "module"}

PaintedCells == {canvas.cmds[i].tag.cell : i \in ModulePaints}

\* C1: whatever the matrix, its size and the style, the module loop of
\* update() paints no module whose (row, col) lies in a 7x7 finder zone
C1_NoModulePaintInFinderZone ==
    \A i \in ModulePaints :
        ~InFinderZone(canvas.cmds[i].tag.cell[1], canvas.cmds[i].tag.cell[2],
                      Matrix.count)

\* a pass has painted a matrix that has a dark module inside a finder zone
\* and a dark module that was painted
C1_Witness ==
    /\ mounted
    /\ \E c \in Matrix.dark : InFinderZone(c[1], c[2], Matrix.count)
    /\ ModulePaints # {}

CellX(cell) ==
    cornerOf(cell[2], Div(props.size, Num(Matrix.count)), props.quietZone)
CellY(cell) ==
    cornerOf(cell[1], Div(props.size, Num(Matrix.count)), props.quietZone)
CellW(cell) == extentOf(cell[2], Div(props.size, Num(Matrix.count)))
CellH(cell) == extentOf(cell[1], Div(props.size, Num(Matrix.count)))

\* the path has a curve whose control point is (x, y): the corner is rounded
Rounded(path, x, y) ==
    \E k \in 1..Len(path) :
        path[k].op = "quadraticCurveTo" /\ path[k].cpx = x /\ path[k].cpy = y

\* the path passes through (x, y) itself: the corner is sharp
Sharp(path, x, y) ==
    \E k \in 1..Len(path) :
        path[k].op \in {"moveTo", "lineTo"} /\ path[k].x = x /\ path[k].y = y

\* a neighbour outside the grid counts as light
Light(row, col) == <<row, col>> \notin (Matrix.dark \cap Grid(Matrix.count))

CornerAsNeighbours(path, x, y, a, b) ==
    /\ Rounded(path, x, y) <=> (Light(a[1], a[2]) /\ Light(b[1], b[2]))
    /\ Sharp(path, x, y) <=> ~Rounded(path, x, y)

\* C9: in fluid style each corner of a painted cell is rounded iff both
\* neighbours on the edges meeting at that corner are light
C9_FluidCornerRoundedIffBothNeighboursLight ==
    (mounted /\ props.qrStyle = "fluid") =>
        \A i \in ModulePaints :
            LET cmd  == canvas.cmds[i]
                row  == cmd.tag.cell[1]
                col  == cmd.tag.cell[2]
                x    == CellX(cmd.tag.cell)
                y    == CellY(cmd.tag.cell)
                xw   == Add(x, CellW(cmd.tag.cell))
                yh   == Add(y, CellH(cmd.tag.cell))
                up   == <<row - 1, col>>
                down == <<row + 1, col>>
                left == <<row, col - 1>>
                right == <<row, col + 1>>
            IN  /\ cmd.op = "fill"
                /\ CornerAsNeighbours(cmd.path, x, y, up, left)
                /\ CornerAsNeighbours(cmd.path, xw, y, up, right)
                /\ CornerAsNeighbours(cmd.path, xw, yh, right, down)
                /\ CornerAsNeighbours(cmd.path, x, yh, down, left)

\* a fluid pass has painted two horizontally adjacent dark cells, the left
\* one with a light neighbour above and a dark one below
C9_Witness ==
    /\ mounted
    /\ props.qrStyle = "fluid"
    /\ \E c \in PaintedCells :
        /\ <<c[1], c[2] + 1>> \in PaintedCells
        /\ Light(c[1] - 1, c[2])
        /\ ~Light(c[1] + 1, c[2])

\* centre and radius of the circle a dots paint fills
DotX(cmd) == cmd.path[1].x
DotY(cmd) == cmd.path[1].y
DotR(cmd) == cmd.path[1].r

AbsQ(a) == IF Lt(a, Num(0)) THEN Neg(a) ELSE a

\* C10 (as claimed): in dots style the circles of two edge-adjacent painted
\* modules are disjoint: their centres are further apart than the sum of
\* their radii (the centres differ along one axis only)
C10_AdjacentDotsDisjoint ==
    (mounted /\ props.qrStyle = "dots") =>
        \A i, j \in ModulePaints :
            LET a == canvas.cmds[i]
                b == canvas.cmds[j]
            IN  b.tag.cell \in Around(a.tag.cell) =>
                    Lt(Add(DotR(a), DotR(b)),
                       Add(AbsQ(Sub(DotX(a), DotX(b))),
                           AbsQ(Sub(DotY(a), DotY(b)))))

----------------------------------------------------------------------------
(* Properties of the render passes and the logo loads (Spec) *)

IsPaint(e) == e.cmd.op # "logoOnLoad"
IsCall(e)  == e.cmd.op = "logoOnLoad"

\* place of a paint in the order background, modules, eyes, logo overlay
Rank(e) ==
    CASE e.cmd.tag.kind = "background" -> 0
      [] e.cmd.tag.kind = "module"     -> 1
      [] e.cmd.tag.kind = "eye"        -> 2
      [] OTHER                         -> 3

Events(pass) == {i \in 1..Len(history) : history[i].pass = pass}
PaintsOf(pass, kind) ==
    {i \in Events(pass) : IsPaint(history[i]) /\ history[i].cmd.tag.kind = kind}

\* C3: among the paints of one pass the background fill comes before every
\* module paint, every module paint before every eye paint, and the logo
\* overlay (clearing and image) after the last eye paint
C3_DrawOrderWithinPass ==
    \A k \in 1..passes :
        /\ \A i, j \in Events(k) :
               (i < j /\ IsPaint(history[i]) /\ IsPaint(history[j]))
                   => Rank(history[i]) <= Rank(history[j])
        /\ \A i \in PaintsOf(k, "background") :
               \A j \in PaintsOf(k, "module") \cup PaintsOf(k, "eye") : i < j
        /\ Cardinality(PaintsOf(k, "background")) = 1
        /\ \A i \in PaintsOf(k, "eye") : \A j \in PaintsOf(k, "logo") : i < j

\* some pass has painted its background, modules, eyes and logo overlay
C3_Witness ==
    \E k \in 1..passes :
        /\ PaintsOf(k, "background") # {}
        /\ PaintsOf(k, "module") # {}
        /\ PaintsOf(k, "eye") # {}
        /\ PaintsOf(k, "logo") # {}

LoadOf(pass) == CHOOSE i \in 1..Len(loads) : loads[i].pass = pass

\* the paints of the overlay computed from props p alone, on a surface
\* scaled as update() scales it
OverlayOf(p) ==
    exec(NewCanvas(Num(0)), <<ctxScale(scaleOf(dpr))>> \o onload(p), 1).cmds

\* a paint without the line width of its stroke, which the handler never
\* sets: the ellipse is stroked with the width the last eye left behind
Shape(cmd) == IF cmd.op = "stroke" THEN [cmd EXCEPT !.lineWidth = Num(0)] ELSE cmd
Shapes(cmds) == [i \in 1..Len(cmds) |-> Shape(cmds[i])]

EndsWith(seq, tail) ==
    /\ Len(tail) <= Len(seq)
    /\ SubSeq(seq, Len(seq) - Len(tail) + 1, Len(seq)) = tail

StartsWith(seq, head) ==
    /\ Len(head) <= Len(seq)
    /\ SubSeq(seq, 1, Len(head)) = head

\* C4: when the load of pass k completes after a later pass has run, its
\* handler paints the overlay computed from the props pass k captured (rects,
\* ellipse, image, bgColor, opacity) on top of the surface as painted by the
\* latest pass
C4_StaleCompletionStillPaints ==
    (lastOp.op = "onload" /\ lastOp.pass < passes) =>
        LET p == loads[LoadOf(lastOp.pass)].props
        IN  /\ OverlayOf(p) # <<>>
            /\ EndsWith(Shapes(canvas.cmds), Shapes(OverlayOf(p)))
            /\ StartsWith(canvas.cmds,
                          exec(NewCanvas(Num(0)), update(props, dpr), 1).cmds)
            /\ Len(canvas.cmds) >=
                   Len(exec(NewCanvas(Num(0)), update(props, dpr), 1).cmds)
                     + Len(OverlayOf(p))

\* the load of pass 1 has just completed after pass 2 ran with other props
\* and without a logo
C4_Witness ==
    /\ lastOp.op = "onload"
    /\ lastOp.pass = 1
    /\ passes = 2
    /\ ~truthy(props.logoImage)
    /\ props.size = loads[LoadOf(1)].props.size
    /\ props.value # loads[LoadOf(1)].props.value

\* C5: once the load of a pass has failed, nothing of that pass's overlay is
\* ever painted, its logoOnLoad is never called, the load stays failed (no
\* reload) and no exception has been raised
C5_FailedLoadLeavesNoTrace ==
    \A i \in 1..Len(loads) :
        loads[i].failed =>
            /\ loads[i].status = "failed"
            /\ \A j \in Events(loads[i].pass) :
                   /\ ~IsCall(history[j])
                   /\ history[j].cmd.tag.kind \notin {"clear", "logo"}
            /\ \A j \in 1..Len(loads) : loads[j].pass = loads[i].pass => j = i
            /\ ~canvas.thrown

\* a load has failed and a later pass has run and had its own load complete
C5_Witness ==
    \E i \in 1..Len(loads) :
        /\ loads[i].failed
        /\ loads[i].props.logoOnLoad
        /\ loads[i].pass < passes
        /\ lastOp.op = "onload"

\* C6: logoOnLoad is called exactly once for a load that completed with the
\* callback provided and never otherwise; each call comes after the image of
\* that load was composited; every call belongs to a pass with a logoImage
C6_CallbackOnceAfterCompositing ==
    /\ \A i \in 1..Len(loads) :
           Cardinality({j \in Events(loads[i].pass) : IsCall(history[j])})
             = IF loads[i].status = "loaded" /\ loads[i].props.logoOnLoad
               THEN 1 ELSE 0
    /\ \A j \in 1..Len(history) :
           IsCall(history[j]) =>
               /\ \E i \in 1..Len(loads) :
                      /\ loads[i].pass = history[j].pass
                      /\ truthy(loads[i].props.logoImage)
               /\ \E d \in 1..(j - 1) :
                      /\ history[d].pass = history[j].pass
                      /\ history[d].cmd.op = "drawImage"

\* a callback has been called, and a pass without a logoImage but with a
\* callback has run as well
C6_Witness ==
    /\ \E j \in 1..Len(history) : IsCall(history[j])
    /\ ~truthy(props.logoImage)
    /\ props.logoOnLoad
    /\ passes = 2

PassOps == {"mount", "update", "forceUpdate"}

\* C7: the surface a pass leaves depends only on that pass's inputs: it is
\* the surface the same pass leaves on a fresh canvas, whatever was painted
\* or set before; so a second run with the same inputs changes nothing
C7_PassDependsOnlyOnItsInputs ==
    lastOp.op \in PassOps => canvas = exec(NewCanvas(Num(0)), update(props, dpr), 1)

\* update() has just run a second time with unchanged props
C7_Witness ==
    /\ lastOp.op = "forceUpdate"
    /\ passes = 2
    /\ ModulePaints # {}

----------------------------------------------------------------------------
(* Properties of drawRoundedSquare (SpecRounded) *)

LineSegs(path) == SelectSeq(path, LAMBDA seg : seg.op = "lineTo")

\* the corner radii the path was built with, read off its four straight
\* edges; x, y, size are the box after the stroke adjustment
UsedRadii(path, x, y, size) ==
    LET l == LineSegs(path)
    IN  << Sub(l[4].y, y),
           Sub(Add(x, size), l[1].x),
           Sub(Add(y, size), l[2].y),
           Sub(l[3].x, x) >>

RsUsed ==
    UsedRadii(canvas.cmds[1].path,
              Add(rs.x, Half(rs.lineWidth)), Add(rs.y, Half(rs.lineWidth)),
              Sub(rs.size, rs.lineWidth))

\* the radius given for corner k
RsInput(k) == IF isArray(rs.radii) THEN rs.radii.v[k].v ELSE rs.radii.v

RsHalf == Half(Sub(rs.size, rs.lineWidth))

----------------------------------------------------------------------------
(* Properties of the eyes (SpecEyes) *)

\* the paints of eye i, in the order they were made
EyeCmds(i) ==
    SelectSeq(canvas.cmds,
              LAMBDA c : c.tag.kind = "eye" /\ c.tag.cell = <<i, i>>)

PathXs(path) ==
    {path[k].x : k \in {j \in 1..Len(path) :
                           path[j].op \in {"moveTo", "lineTo", "quadraticCurveTo"}}}
      \cup {path[k].cpx : k \in {j \in 1..Len(path) :
                                    path[j].op = "quadraticCurveTo"}}

PathYs(path) ==
    {path[k].y : k \in {j \in 1..Len(path) :
                           path[j].op \in {"moveTo", "lineTo", "quadraticCurveTo"}}}
      \cup {path[k].cpy : k \in {j \in 1..Len(path) :
                                    path[j].op = "quadraticCurveTo"}}

MinOf(S) == CHOOSE a \in S : \A b \in S : Leq(a, b)
MaxOf(S) == CHOOSE a \in S : \A b \in S : Leq(b, a)

\* the stroke cmd, with its line width, covers the square of the given side
\* whose top-left corner is (x, y): the outside of the stroke is on its edges
StrokeCovers(cmd, x, y, side) ==
    /\ cmd.op = "stroke"
    /\ Sub(MinOf(PathXs(cmd.path)), Half(cmd.lineWidth)) = x
    /\ Sub(MinOf(PathYs(cmd.path)), Half(cmd.lineWidth)) = y
    /\ Add(MaxOf(PathXs(cmd.path)), Half(cmd.lineWidth)) = Add(x, side)
    /\ Add(MaxOf(PathYs(cmd.path)), Half(cmd.lineWidth)) = Add(y, side)

EyeCellSize == Div(props.size, Num(props.value.count))

\* the zone of eye i: (0,0), (0,N-7), (N-7,0) as (row, col)
EyeZone(i) ==
    CASE i = 0 -> <<0, 0>>
      [] i = 1 -> <<0, props.value.count - 7>>
      [] i = 2 -> <<props.value.count - 7, 0>>

EyeX(i) == Add(Mul(Num(EyeZone(i)[2]), EyeCellSize), props.quietZone)
EyeY(i) == Add(Mul(Num(EyeZone(i)[1]), EyeCellSize), props.quietZone)

EyeGeometry(i) ==
    /\ Len(EyeCmds(i)) = 3
    /\ StrokeCovers(EyeCmds(i)[1], EyeX(i), EyeY(i), Mul(EyeCellSize, Num(7)))
    /\ StrokeCovers(EyeCmds(i)[2],
                    Add(EyeX(i), Mul(EyeCellSize, Num(2))),
                    Add(EyeY(i), Mul(EyeCellSize, Num(2))),
                    Mul(EyeCellSize, Num(3)))
    /\ EyeCmds(i)[3].op = "fill"
    /\ EyeCmds(i)[3].path = EyeCmds(i)[2].path
    /\ EyeCmds(i)[1].lineWidth = MathCeil(EyeCellSize)
    /\ EyeCmds(i)[2].lineWidth = MathCeil(EyeCellSize)

EyeColorSpec(i) ==
    IF isArray(props.eyeColor) THEN at(props.eyeColor, i) ELSE props.eyeColor

\* the colours the ring and the 3x3 fill of eye i are to have
RingColor(i) ==
    CASE EyeColorSpec(i).t = "object" -> EyeColorSpec(i).outer.v
      [] truthy(EyeColorSpec(i))      -> EyeColorSpec(i).v
      [] OTHER                        -> props.fgColor

FillColor(i) ==
    CASE EyeColorSpec(i).t = "object" -> EyeColorSpec(i).inner.v
      [] truthy(EyeColorSpec(i))      -> EyeColorSpec(i).v
      [] OTHER                        -> props.fgColor

\* C12 (as claimed): for each eye i independently the ring has the outer
\* colour and the fill the inner colour of an {inner, outer} pair, both have
\* the single colour given, and both have fgColor when no colour is specified
\* for eye i (eyeColor unset, or the i-th entry of a per-eye list unset); the
\* pass completes normally
C12_EyeColourResolution ==
    lastOp.op = "mount" =>
        /\ ~canvas.thrown
        /\ \A i \in 0..2 :
            /\ Len(EyeCmds(i)) = 3
            /\ EyeCmds(i)[1].style = RingColor(i)
            /\ EyeCmds(i)[3].style = FillColor(i)

\* the same resolution for the passes in which every eye has a colour
\* specification or eyeColor is unset altogether
C12_ResolutionWhenSpecified ==
    (/\ lastOp.op = "mount"
     /\ \A i \in 0..2 : isArray(props.eyeColor) => truthy(EyeColorSpec(i)))
        => C12_EyeColourResolution

\* the pass of the scenario: a per-eye list that names eye 0 only
C12_UnsetEntryThrows ==
    /\ lastOp.op = "mount"
    /\ isArray(props.eyeColor) /\ Len(props.eyeColor.v) = 1
    /\ canvas.thrown
    /\ EyeCmds(0) # <<>> /\ EyeCmds(1) = <<>> /\ EyeCmds(2) = <<>>


----------------------------------------------------------------------------
(* Properties of the logo overlay (SpecLogo) *)

\* the paints the completed handler added to the canvas
OverlayCmds ==
    SelectSeq(canvas.cmds, LAMBDA c : c.tag.kind \in {"clear", "logo"})

\* the composited image: the handler's last paint
LogoCmd == canvas.cmds[Len(canvas.cmds)]

\* a width or height option counts as specified when it is a non-zero number
Specified(val) == val.t = "number" /\ ~IsZero(val.v)

LogoW == IF Specified(props.logoWidth) THEN props.logoWidth.v
         ELSE Mul(Q(1, 5), props.size)
LogoH == IF Specified(props.logoHeight) THEN props.logoHeight.v ELSE LogoW

\* C13: the composited logo rect has width logoWidth if specified else
\* 0.2*size, height logoHeight if specified else the width, and is drawn at
\* ((size - width)/2 + quietZone, (size - height)/2 + quietZone), so that its
\* centre is the centre of the canvas of side size + 2*quietZone
C13_LogoRectCentred ==
    lastOp.op = "onload" =>
        /\ LogoCmd.op = "drawImage"
        /\ LogoCmd.w = LogoW
        /\ LogoCmd.h = LogoH
        /\ LogoCmd.x = Add(Half(Sub(props.size, LogoW)), props.quietZone)
        /\ LogoCmd.y = Add(Half(Sub(props.size, LogoH)), props.quietZone)
        /\ Add(LogoCmd.x, Half(LogoCmd.w)) = Half(qrSizeOf(props))
        /\ Add(LogoCmd.y, Half(LogoCmd.h)) = Half(qrSizeOf(props))

\* a load has completed with a width given, the height left to default to it,
\* and a quiet zone
C13_Witness ==
    /\ lastOp.op = "onload"
    /\ LogoCmd.op = "drawImage"
    /\ Specified(props.logoWidth) /\ props.logoHeight.t = "undefined"
    /\ LogoCmd.h = props.logoWidth.v
    /\ ~IsZero(props.quietZone)


\* the bgColor paints the handler made behind the logo
ClearCmds == SelectSeq(canvas.cmds, LAMBDA c : c.tag.kind = "clear")

PositivePadding ==
    props.logoPadding.t = "number" /\ Lt(Num(0), props.logoPadding.v)

\* C14 (as claimed): when the load completes a bgColor region is painted
\* behind the logo if and only if removeQrCodeBehindLogo is set or
\* logoPadding > 0; with the flag unset and the padding zero, negative or
\* unset nothing is cleared
C14_ClearsIffFlagOrPositivePadding ==
    lastOp.op = "onload" =>
        (ClearCmds # <<>> <=> (props.removeQrCodeBehindLogo \/ PositivePadding))

\* what the handler tests: the flag, or a padding that is not zero
C14_ClearsIffFlagOrNonZeroPadding ==
    lastOp.op = "onload" =>
        (ClearCmds # <<>> <=>
            (props.removeQrCodeBehindLogo \/ ~IsZero(numberOrZero(props.logoPadding))))


\* const logoPadding = this.props.logoPadding ? +this.props.logoPadding : 0
Padding == numberOrZero(props.logoPadding)

\* the ellipse centred on the logo rect with radii (width + 2*padding)/2 and
\* (height + 2*padding)/2
ClearEllipse ==
    <<ellipse(Add(LogoCmd.x, Half(LogoCmd.w)), Add(LogoCmd.y, Half(LogoCmd.h)),
              Half(Add(LogoCmd.w, Mul(Num(2), Padding))),
              Half(Add(LogoCmd.h, Mul(Num(2), Padding))))>>

ClearedAsEllipse ==
    /\ Len(ClearCmds) = 2
    /\ {ClearCmds[1].op, ClearCmds[2].op} = {"stroke", "fill"}
    /\ \A k \in 1..2 : /\ ClearCmds[k].style = props.bgColor
                       /\ ClearCmds[k].path = ClearEllipse

\* the logo rect inflated by the padding on each side
ClearedAsRect ==
    /\ Len(ClearCmds) = 1
    /\ ClearCmds[1].op = "fillRect"
    /\ ClearCmds[1].style = props.bgColor
    /\ ClearCmds[1].x = Sub(LogoCmd.x, Padding)
    /\ ClearCmds[1].y = Sub(LogoCmd.y, Padding)
    /\ ClearCmds[1].w = Add(LogoCmd.w, Mul(Num(2), Padding))
    /\ ClearCmds[1].h = Add(LogoCmd.h, Mul(Num(2), Padding))

\* C15: when the handler clears behind the logo, with logoPaddingStyle
\* "circle" the cleared shape is an ellipse filled and stroked with bgColor,
\* centred on the logo rect, with radii (width + 2*padding)/2 and
\* (height + 2*padding)/2; with any other style it is the logo rect inflated
\* by the padding on each side; it is painted before the image is composited
C15_ClearedShape ==
    (lastOp.op = "onload" /\ ClearCmds # <<>>) =>
        /\ OverlayCmds = ClearCmds \o <<LogoCmd>>
        /\ IF props.logoPaddingStyle = "circle"
           THEN ClearedAsEllipse ELSE ClearedAsRect

\* a load has completed that cleared an ellipse for a logo wider than high
\* with a positive padding
C15_Witness ==
    /\ lastOp.op = "onload"
    /\ props.logoPaddingStyle = "circle"
    /\ Len(ClearCmds) = 2
    /\ Lt(Num(0), Padding)
    /\ Lt(LogoCmd.h, LogoCmd.w)
    /\ ~IsZero(props.quietZone)


----------------------------------------------------------------------------
(* Properties of the backing surface (SpecSurface) *)

\* devicePixelRatio, or 1 when it is 0 or absent
SurfaceScale == IF IsZero(dpr) THEN Num(1) ELSE dpr

\* size + 2*quietZone
LogicalSide == Add(props.size, Mul(Num(2), props.quietZone))

----------------------------------------------------------------------------
(* Properties of the squares style (SpecSquares) *)

\* b is the cell to the right of a, or the cell below a
RightOf(a, b) == b[1] = a[1] /\ b[2] = a[2] + 1
Below(a, b)   == b[1] = a[1] + 1 /\ b[2] = a[2]

\* the rectangle of a paint is the one the style computes for its cell
IsCellRect(cmd) ==
    /\ cmd.op = "fillRect"
    /\ cmd.x = CellX(cmd.tag.cell) /\ cmd.w = CellW(cmd.tag.cell)
    /\ cmd.y = CellY(cmd.tag.cell) /\ cmd.h = CellH(cmd.tag.cell)

\* C17: in squares style, for every integer size and every N, the rectangle
\* of a painted cell (start round(i*cellSize) + offset, extent
\* ceil((i+1)*cellSize) - floor(i*cellSize)) reaches at least the start of the
\* rectangle of the painted cell next to it on the right and of the one below
\* it: there is no unpainted gap between adjacent painted cells
C17_NoSeamBetweenAdjacentSquares ==
    (mounted /\ props.qrStyle = "squares") =>
        \A i, j \in ModulePaints :
            /\ IsCellRect(canvas.cmds[i])
            /\ RightOf(canvas.cmds[i].tag.cell, canvas.cmds[j].tag.cell) =>
                   Leq(canvas.cmds[j].x,
                       Add(canvas.cmds[i].x, canvas.cmds[i].w))
            /\ Below(canvas.cmds[i].tag.cell, canvas.cmds[j].tag.cell) =>
                   Leq(canvas.cmds[j].y,
                       Add(canvas.cmds[i].y, canvas.cmds[i].h))

\* a pass with a cell size that is not an integer has painted a pair of
\* horizontal neighbours that just touch and a pair of vertical neighbours
\* that overlap
C17_Witness ==
    /\ mounted /\ props.qrStyle = "squares"
    /\ Div(props.size, Num(Matrix.count))[2] # 1
    /\ \E i, j \in ModulePaints :
           /\ RightOf(canvas.cmds[i].tag.cell, canvas.cmds[j].tag.cell)
           /\ canvas.cmds[j].x = Add(canvas.cmds[i].x, canvas.cmds[i].w)
    /\ \E i, j \in ModulePaints :
           /\ Below(canvas.cmds[i].tag.cell, canvas.cmds[j].tag.cell)
           /\ Lt(canvas.cmds[j].y, Add(canvas.cmds[i].y, canvas.cmds[i].h))


----------------------------------------------------------------------------
(* Properties of the centre-based styles (SpecPaint) *)

CentreStyles == {"dots", "hearts", "stars", "diamonds", "octagons",
                 "pentagons", "triangles"}

PaintCellSize == Div(props.size, Num(Matrix.count))

\* the centre of the shape a module paint has drawn, read off its path
ShapeCentre(cmd) ==
    CASE props.qrStyle = "dots" ->
             <<cmd.path[1].x, cmd.path[1].y>>
      [] props.qrStyle \in {"stars", "octagons", "pentagons", "triangles"} ->
             <<cmd.path[1].cx, cmd.path[1].cy>>
      [] props.qrStyle = "diamonds" ->
             \* top vertex (centerX, .), right vertex (., centerY)
             <<cmd.path[1].x, cmd.path[2].y>>
      [] props.qrStyle = "hearts" ->
             \* the path starts at (centerX, centerY + cellSize / 4)
             <<cmd.path[1].x, Sub(cmd.path[1].y, Div(PaintCellSize, Num(4)))>>

\* (col*cellSize + cellSize/2 + offset, row*cellSize + cellSize/2 + offset)
ExactCentre(cell) ==
    <<Add(Add(Mul(Num(cell[2]), PaintCellSize), Half(PaintCellSize)),
          props.quietZone),
      Add(Add(Mul(Num(cell[1]), PaintCellSize), Half(PaintCellSize)),
          props.quietZone)>>

\* (round(col*cellSize) + cellSize/2 + offset, the same for the row)
RoundedCentre(cell) ==
    <<Add(Add(MathRound(Mul(Num(cell[2]), PaintCellSize)), Half(PaintCellSize)),
          props.quietZone),
      Add(Add(MathRound(Mul(Num(cell[1]), PaintCellSize)), Half(PaintCellSize)),
          props.quietZone)>>

\* C18 (as claimed): for the centre-based styles and every size, N and
\* painted cell (row, col), the shape is centred exactly at
\* (col*cellSize + cellSize/2 + offset, row*cellSize + cellSize/2 + offset),
\* also when cellSize is not an integer
C18_ShapeCentredExactly ==
    (mounted /\ props.qrStyle \in CentreStyles) =>
        \A i \in ModulePaints :
            ShapeCentre(canvas.cmds[i]) = ExactCentre(canvas.cmds[i].tag.cell)

\* what the styles compute: the centre is half a cell from the rounded
\* corner of the cell
C18_ShapeCentredOnRoundedCorner ==
    (mounted /\ props.qrStyle \in CentreStyles) =>
        \A i \in ModulePaints :
            ShapeCentre(canvas.cmds[i]) = RoundedCentre(canvas.cmds[i].tag.cell)


----------------------------------------------------------------------------
(* Properties of the synchronous paint with respect to the logo (SpecLogo) *)

\* the configuration with every logo option at its default
WithoutLogo(p) ==
    [p EXCEPT !.logoImage = defaultProps.logoImage,
              !.logoWidth = defaultProps.logoWidth,
              !.logoHeight = defaultProps.logoHeight,
              !.logoOpacity = defaultProps.logoOpacity,
              !.logoOnLoad = defaultProps.logoOnLoad,
              !.removeQrCodeBehindLogo = defaultProps.removeQrCodeBehindLogo,
              !.logoPadding = defaultProps.logoPadding,
              !.logoPaddingStyle = defaultProps.logoPaddingStyle]

\* the centre of the cell lies inside the rect the logo is composited on
UnderLogoRect(cell) ==
    LET cs == Div(props.size, Num(Matrix.count))
        cx == Mul(Add(Num(cell[2]), Q(1, 2)), cs)
        cy == Mul(Add(Num(cell[1]), Q(1, 2)), cs)
    IN  /\ Leq(Half(Sub(props.size, LogoW)), cx)
        /\ Leq(cx, Add(Half(Sub(props.size, LogoW)), LogoW))
        /\ Leq(Half(Sub(props.size, LogoH)), cy)
        /\ Leq(cy, Add(Half(Sub(props.size, LogoH)), LogoH))

\* C19: the module and eye draw commands of a pass are those of the same
\* configuration without any logo option, and the dark modules under the logo
\* rect are painted: the occlusion test isCoordinateInImage plays no part
C19_SynchronousPaintIgnoresLogo ==
    lastOp.op \in PassOps =>
        /\ canvas.cmds = exec(NewCanvas(Num(0)),
                              update(WithoutLogo(props), dpr), 1).cmds
        /\ \A c \in Matrix.dark : UnderLogoRect(c) => c \in PaintedCells

\* a pass with a logo image has painted a dark module that lies under the
\* logo rect and that the occlusion test would exclude
C19_Witness ==
    /\ lastOp.op \in PassOps
    /\ truthy(props.logoImage)
    /\ Specified(props.logoWidth) /\ props.removeQrCodeBehindLogo
    /\ \E c \in Matrix.dark :
           /\ UnderLogoRect(c)
           /\ c \in PaintedCells
           /\ isCoordinateInImage(c[2], c[1], dWidthLogoOf(props),
                                  dHeightLogoOf(props), dxLogoOf(props),
                                  dyLogoOf(props), cellSizeOf(props),
                                  props.logoImage)


----------------------------------------------------------------------------
(* Properties of the handler's drawing state (SpecLogo) *)

\* global alpha, fill style, stroke style and line width of the context
Ambient(cv) ==
    [ globalAlpha |-> cv.globalAlpha,
      fillStyle   |-> cv.fillStyle,
      strokeStyle |-> cv.strokeStyle,
      lineWidth   |-> cv.lineWidth ]

\* C20: the logo completion handler leaves the ambient drawing state as it
\* found it: global alpha, fill style, stroke style and line width after the
\* handler returns equal their values just before it ran, for every opacity,
\* padding style and clearing setting
C20_HandlerRestoresDrawingState ==
    [][lastOp'.op = "onload" =>
          /\ Ambient(canvas') = Ambient(canvas)
          /\ canvas'.stack = canvas.stack]_vars

\* a handler has cleared an ellipse in bgColor and composited the image at
\* half opacity, and the context is back at full opacity and the foreground
\* colour
C20_Witness ==
    /\ lastOp.op = "onload"
    /\ Len(ClearCmds) = 2
    /\ ClearCmds[1].style = props.bgColor
    /\ LogoCmd.alpha = Q(1, 2)
    /\ canvas.globalAlpha = Num(1)
    /\ canvas.fillStyle = props.fgColor
    /\ canvas.strokeStyle = props.fgColor
    /\ props.fgColor # props.bgColor


\* the paints of the call, in order
RsCmds == canvas.cmds

\* C21: when the side is at least the line width, drawRoundedSquare builds
\* the path on the box with origin (x + w/2, y + w/2) and side s - w, so that
\* the outside of the stroke lies on the nominal box [x, x+s] x [y, y+s]; the
\* path is always stroked and is filled, after the stroke, only when fill is
\* true
C21_StrokeAlignedToNominalBox ==
    (lastOp.op = "drawRoundedSquare" /\ Leq(rs.lineWidth, rs.size)) =>
        /\ RsCmds[1].op = "stroke"
        /\ RsCmds[1].lineWidth = rs.lineWidth
        /\ MinOf(PathXs(RsCmds[1].path)) = Add(rs.x, Half(rs.lineWidth))
        /\ MinOf(PathYs(RsCmds[1].path)) = Add(rs.y, Half(rs.lineWidth))
        /\ Sub(MaxOf(PathXs(RsCmds[1].path)), MinOf(PathXs(RsCmds[1].path)))
               = Sub(rs.size, rs.lineWidth)
        /\ Sub(MaxOf(PathYs(RsCmds[1].path)), MinOf(PathYs(RsCmds[1].path)))
               = Sub(rs.size, rs.lineWidth)
        /\ StrokeCovers(RsCmds[1], rs.x, rs.y, rs.size)
        /\ IF rs.fill
           THEN /\ Len(RsCmds) = 2
                /\ RsCmds[2].op = "fill"
                /\ RsCmds[2].path = RsCmds[1].path
           ELSE Len(RsCmds) = 1

\* a call with a positive line width smaller than the side, a fractional
\* origin and rounded corners has stroked and filled its path
C21_Witness ==
    /\ lastOp.op = "drawRoundedSquare"
    /\ Lt(Num(0), rs.lineWidth) /\ Lt(rs.lineWidth, rs.size)
    /\ rs.x = Q(1, 2)
    /\ rs.fill
    /\ Len(RsCmds) = 2
    /\ \E k \in 1..Len(RsCmds[1].path) :
           RsCmds[1].path[k].op = "quadraticCurveTo"


----------------------------------------------------------------------------
(* Properties of the eye radii (SpecEyes) *)

IsFourTuple(val) ==
    isArray(val) /\ Len(val.v) = 4 /\ \A k \in 1..4 : val.v[k].t = "number"

\* eyeRadius is one CornerRadii value: a scalar, a 4-tuple of per-corner
\* radii or an {inner, outer} pair
SingleRadiusSpec ==
    \/ props.eyeRadius.t \in {"number", "object"}
    \/ IsFourTuple(props.eyeRadius)

OuterRadiusSpec ==
    IF props.eyeRadius.t = "object" THEN props.eyeRadius.outer ELSE props.eyeRadius
InnerRadiusSpec ==
    IF props.eyeRadius.t = "object" THEN props.eyeRadius.inner ELSE props.eyeRadius

\* the radius a specification gives corner k (1 top-left, 2 top-right,
\* 3 bottom-right, 4 bottom-left), limited to half the side of the path's box
CornerOfSpec(spec, k, side) ==
    MathMin(IF isArray(spec) THEN spec.v[k].v ELSE spec.v, Half(side))

EyeLineWidth == MathCeil(EyeCellSize)
OuterSide == Sub(Mul(EyeCellSize, Num(7)), EyeLineWidth)
InnerSide == Sub(Mul(EyeCellSize, Num(3)), EyeLineWidth)

\* the corner radii of the ring and of the 3x3 box of eye i, read off the
\* paths
OuterUsed(i) ==
    UsedRadii(EyeCmds(i)[1].path,
              Add(EyeX(i), Half(EyeLineWidth)), Add(EyeY(i), Half(EyeLineWidth)),
              OuterSide)
InnerUsed(i) ==
    UsedRadii(EyeCmds(i)[2].path,
              Add(Add(EyeX(i), Mul(EyeCellSize, Num(2))), Half(EyeLineWidth)),
              Add(Add(EyeY(i), Mul(EyeCellSize, Num(2))), Half(EyeLineWidth)),
              InnerSide)

AllEyesDrawn == lastOp.op = "mount" /\ \A i \in 0..2 : Len(EyeCmds(i)) = 3

SameSpecForEveryEye ==
    \A i \in 0..2 : \A k \in 1..4 :
        /\ OuterUsed(i)[k] = CornerOfSpec(OuterRadiusSpec, k, OuterSide)
        /\ InnerUsed(i)[k] = CornerOfSpec(InnerRadiusSpec, k, InnerSide)

\* C22 (as claimed): an eyeRadius given as one CornerRadii value (a scalar, a
\* 4-tuple of per-corner radii or an {inner, outer} pair) applies identically
\* to all three eyes, a 4-tuple giving its four values to the top-left,
\* top-right, bottom-right and bottom-left corners of each eye
C22_SingleRadiusSpecForAllEyes ==
    (AllEyesDrawn /\ SingleRadiusSpec) => SameSpecForEveryEye

\* the same for a scalar and for an {inner, outer} pair, whose members may be
\* 4-tuples
C22_ScalarOrPairForAllEyes ==
    (AllEyesDrawn /\ props.eyeRadius.t \in {"number", "object"})
        => SameSpecForEveryEye

\* what a top-level 4-tuple does: it is read as a per-eye list, eye i taking
\* its i-th value for all four corners
C22_FourTupleReadPerEye ==
    (AllEyesDrawn /\ IsFourTuple(props.eyeRadius)) =>
        \A i \in 0..2 : \A k \in 1..4 :
            OuterUsed(i)[k] =
                MathMin(props.eyeRadius.v[i + 1].v, Half(OuterSide))


----------------------------------------------------------------------------
(* Properties of the module rectangles (SpecPaint) *)

\* the extent of a module paint on the two axes: <<left, right>>, <<top, bottom>>
SpanX(cmd) ==
    IF cmd.op = "fillRect" THEN <<cmd.x, Add(cmd.x, cmd.w)>>
    ELSE <<MinOf(PathXs(cmd.path)), MaxOf(PathXs(cmd.path))>>
SpanY(cmd) ==
    IF cmd.op = "fillRect" THEN <<cmd.y, Add(cmd.y, cmd.h)>>
    ELSE <<MinOf(PathYs(cmd.path)), MaxOf(PathYs(cmd.path))>>

\* the span lies in [quietZone, quietZone + size + slack]
InDrawableArea(span, slack) ==
    /\ Leq(props.quietZone, span[1])
    /\ Leq(span[2], Add(Add(props.quietZone, props.size), slack))

\* C23 (as claimed): in squares and fluid styles every painted module
\* rectangle lies inside the drawable area [quietZone, quietZone + size] on
\* both axes, so no module paint extends into the quiet zone
C23_ModulesInsideDrawableArea ==
    (mounted /\ props.qrStyle \in {"squares", "fluid"}) =>
        \A i \in ModulePaints :
            /\ InDrawableArea(SpanX(canvas.cmds[i]), Num(0))
            /\ InDrawableArea(SpanY(canvas.cmds[i]), Num(0))

\* what holds: a module rectangle starts inside the drawable area and ends
\* at most one pixel beyond it
C23_ModulesAtMostOnePixelBeyond ==
    (mounted /\ props.qrStyle \in {"squares", "fluid"}) =>
        \A i \in ModulePaints :
            /\ InDrawableArea(SpanX(canvas.cmds[i]), Num(1))
            /\ InDrawableArea(SpanY(canvas.cmds[i]), Num(1))


----------------------------------------------------------------------------
(* Properties of the zone test under swapped arguments (SpecPaint) *)

\* the dark cells the loop would paint had it passed (col, row) as declared
PaintedAsDeclared ==
    {c \in Matrix.dark : ~isInPositioninZone(c[2], c[1], zonesOf(props))}

\* C24: for the three zones built by update(), isInPositioninZone gives the
\* same result for every cell when its two coordinates are swapped, so the
\* call sites passing (row, col) paint exactly the cells that the declared
\* order (col, row) would
C24_ZoneTestSymmetricUnderSwap ==
    mounted =>
        /\ \A c \in Grid(Matrix.count) :
               isInPositioninZone(c[1], c[2], zonesOf(props))
                   = isInPositioninZone(c[2], c[1], zonesOf(props))
        /\ PaintedCells = PaintedAsDeclared

\* a pass over a matrix with a dark module off the diagonal inside a zone
\* (the swap moves it to another zone) and a painted module off the diagonal
C24_Witness ==
    /\ mounted
    /\ \E c \in Matrix.dark :
           /\ c[1] # c[2]
           /\ isInPositioninZone(c[1], c[2], zonesOf(props))
    /\ \E c \in PaintedCells : c[1] # c[2]


====
